---- MODULE Spec2Model ----
(***************************************************************************)
(* Tail-risk engine of Tail-Risk-App-Streamlit: the CSV ingestor           *)
(* (process_csv_data), the normalizer and the risk analyzer                *)
(* (analyze_tail_risk) of src/server.py, which src/app.py duplicates, and  *)
(* from src/app.py the API adapter (fetch_live_history), the script's      *)
(* analysis of an API frame and the risk categories (get_category).        *)
(*                                                                         *)
(* Instants are minutes since 1970-01-01 00:00 (naive local time), a       *)
(* time-of-day is minutes since midnight.  An absent value (None, NaT,     *)
(* NaN) is the empty sequence, a present value v is <<v>>.                 *)
(***************************************************************************)
EXTENDS Integers, Sequences, FiniteSets, TLC

\* ------------------------------------------------------------ constants
MinutesPerDay == 1440
HalfDay == 720
RelevanceWindow == 180
SevereThreshold == 45
HighRiskPercent == 15
NuisanceThreshold == 15

\* ------------------------------------------------------------ bounds
\* Rows of a CSV text.
MaxRows == 2
\* Records of a valid set that is categorized on its own.
MaxValid == 2
\* Flight objects of an API response.
MaxFlights == 2

\* ------------------------------------------------------------ values
Absent == <<>>
Some(v) == <<v>>
IsAbsent(x) == x = <<>>
Val(x) == x[1]

NoExc == "none"

\* The sum of a sequence of integers.
RECURSIVE SumSeq(_)
SumSeq(s) == IF s = <<>> THEN 0 ELSE Head(s) + SumSeq(Tail(s))

\* All sequences over S of length at most n.
SeqsUpTo(S, n) == UNION {[1..k -> S] : k \in 0..n}

\* ------------------------------------------------------------ CSV input
\* Cells the inputs are drawn from.  A Date cell parses under %d-%b-%y or
\* does not; a time cell parses, after cleaning, under %I:%M%p or does not.
DateCells == {"21-Nov-25", "2025-11-21"}
DepartureCells == {"08:45AM", "11:00PM CEST", "23:10"}
ArrivalCells == {"12:30AM", "08:45AM CET", "10:00PM", "Cancelled"}
DurationCells == {"1h 17m", "Cancelled"}

RequiredCols == {"Date", "Departure", "Arrival"}
RouteCols == {"Origin", "Destination"}
AllCols == RequiredCols \cup RouteCols \cup {"Aircraft", "Duration"}

\* A row of the CSV text: one cell per column the header may name.  The
\* descriptive cells (Origin, Destination, Aircraft) of a text are all
\* filled or all empty (csv.filled).
CsvRows ==
    {r \in [Date : DateCells, Departure : DepartureCells,
            Arrival : ArrivalCells, Duration : DurationCells] :
        /\ r.Date \notin {"21-Nov-25"} =>
              /\ r.Departure = "08:45AM"
              /\ r.Arrival = "08:45AM CET"
              /\ r.Duration = "1h 17m"
        /\ r.Duration = "Cancelled" =>
              /\ r.Departure = "08:45AM"
              /\ r.Arrival \in {"Cancelled", "08:45AM CET"}
        /\ r.Departure = "23:10" => r.Arrival \in {"12:30AM", "Cancelled"}}

CsvHeaders == {AllCols, RequiredCols, AllCols \ {"Date"}}

\* The texts the ingest is given.  A text without a Date column, and one
\* whose descriptive cells are all empty, fail whatever their rows hold:
\* they are tried with at most one row.
CsvInputs ==
    {c \in [cols : CsvHeaders, filled : BOOLEAN, rows : SeqsUpTo(CsvRows, MaxRows)] :
        /\ (~c.filled) => c.cols = AllCols
        /\ ("Date" \notin c.cols \/ ~c.filled) => Len(c.rows) <= 1}

\* pd.to_datetime(cell, format='%d-%b-%y', errors='coerce'): the midnight
\* instant of the date, or NaT.
ParseDate(cell) ==
    CASE cell = "21-Nov-25" -> Some(20413 * MinutesPerDay)
      [] cell = "20-Nov-25" -> Some(20412 * MinutesPerDay)
      [] cell = "19-Nov-25" -> Some(20411 * MinutesPerDay)
      [] OTHER -> Absent

\* clean: the scrape's zone tokens are removed and the rest is stripped.
clean(x) ==
    CASE x = "11:00PM CEST" -> "11:00PM"
      [] x = "08:45AM CET" -> "08:45AM"
      [] OTHER -> x

\* strptime's %I:%M%p on a cleaned cell: the time-of-day, or a failure.
ParseClock12(t_str) ==
    CASE t_str = "12:30AM" -> Some(30)
      [] t_str = "08:45AM" -> Some(8 * 60 + 45)
      [] t_str = "10:00PM" -> Some(22 * 60)
      [] t_str = "11:00PM" -> Some(23 * 60)
      [] OTHER -> Absent

\* parse_time(row, col): the row's date combined with the cell's
\* time-of-day; NaT when the cell does not parse.
parse_time(date_dt, cell) ==
    LET t == ParseClock12(clean(cell))
    IN  IF IsAbsent(t) THEN Absent ELSE Some(Val(date_dt) + Val(t))

\* .dt.time of an instant.
TimeOfDay(instant) == instant % MinutesPerDay

\* Series.mode()[0] over a descriptive column: the most frequent non-null
\* cell; an empty mode raises.
ModeRaises(cells) == \A i \in 1..Len(cells) : IsAbsent(cells[i])
ModeFirst(cells) ==
    LET present == SelectSeq(cells, LAMBDA c : ~IsAbsent(c))
        Freq(v) == Len(SelectSeq(present, LAMBDA c : c = v))
    IN  Val(CHOOSE v \in {present[i] : i \in 1..Len(present)} :
                \A w \in {present[i] : i \in 1..Len(present)} : Freq(v) >= Freq(w))

\* ------------------------------------------------------------ process_csv_data
\* pd.read_csv: one frame row per text row, labelled 1..n, with the cells
\* of the header's columns.
DescriptiveCell(csv, col) ==
    IF ~csv.filled THEN Absent
    ELSE CASE col = "Origin" -> Some("BCN")
           [] col = "Destination" -> Some("CDG")
           [] OTHER -> Some("A320")

read_csv(csv) ==
    [cols |-> csv.cols,
     rows |-> [i \in 1..Len(csv.rows) |->
                 [label |-> i,
                  Date |-> csv.rows[i].Date,
                  Departure |-> csv.rows[i].Departure,
                  Arrival |-> csv.rows[i].Arrival,
                  Duration |-> csv.rows[i].Duration,
                  Origin |-> DescriptiveCell(csv, "Origin"),
                  Destination |-> DescriptiveCell(csv, "Destination"),
                  Aircraft |-> DescriptiveCell(csv, "Aircraft")]]]

\* Step 1: Date_dt is parsed and the rows whose Date failed are dropped.
ParseDates(frame) ==
    LET dated == [i \in 1..Len(frame.rows) |->
                    [Date_dt |-> ParseDate(frame.rows[i].Date)] @@ frame.rows[i]]
    IN  [cols |-> frame.cols \cup {"Date_dt"},
         rows |-> SelectSeq(dated, LAMBDA r : ~IsAbsent(r.Date_dt))]

\* Mutant: the rows whose Departure or Arrival fails to parse are dropped.
ParseTimes_DropsBadTimes(frame) ==
    LET timed == [i \in 1..Len(frame.rows) |->
                    [actual_out |-> parse_time(frame.rows[i].Date_dt, frame.rows[i].Departure),
                     actual_in |-> parse_time(frame.rows[i].Date_dt, frame.rows[i].Arrival)]
                    @@ frame.rows[i]]
    IN  [cols |-> frame.cols \cup {"actual_out", "actual_in"},
         time_dtype |-> IF Len(frame.rows) = 0 THEN "float64" ELSE "datetime64[ns]",
         rows |-> SelectSeq(timed, LAMBDA r : ~IsAbsent(r.actual_out) /\ ~IsAbsent(r.actual_in))]
\* Mutant: the time columns of a frame with no row are datetime columns too.
ParseTimes_AlwaysDatetime(frame) ==
    [cols |-> frame.cols \cup {"actual_out", "actual_in"},
     time_dtype |-> "datetime64[ns]",
     rows |-> [i \in 1..Len(frame.rows) |->
                 [actual_out |-> parse_time(frame.rows[i].Date_dt, frame.rows[i].Departure),
                  actual_in |-> parse_time(frame.rows[i].Date_dt, frame.rows[i].Arrival)]
                 @@ frame.rows[i]]]
\* Step 2: actual_out and actual_in.  DataFrame.apply over a frame with no
\* row yields an empty float64 column, not a datetime one.
ParseTimes(frame) ==
    [cols |-> frame.cols \cup {"actual_out", "actual_in"},
     time_dtype |-> IF Len(frame.rows) = 0 THEN "float64" ELSE "datetime64[ns]",
     rows |-> [i \in 1..Len(frame.rows) |->
                 [actual_out |-> parse_time(frame.rows[i].Date_dt, frame.rows[i].Departure),
                  actual_in |-> parse_time(frame.rows[i].Date_dt, frame.rows[i].Arrival)]
                 @@ frame.rows[i]]]

\* Step 3: str.contains('Cancelled', case=False) on a Duration cell.
ContainsCancelled(cell) == cell \in {"Cancelled", "cancelled", "Flight Cancelled"}

\* Mutant: a row whose Arrival cell says Cancelled is cancelled as well.
HandleCancellations_ArrivalToo(frame) ==
    [frame EXCEPT
       !.cols = @ \cup {"is_cancelled"},
       !.rows = [i \in 1..Len(frame.rows) |->
                   [is_cancelled |-> \/ ContainsCancelled(frame.rows[i].Arrival)
                                     \/ /\ "Duration" \in frame.cols
                                        /\ ContainsCancelled(frame.rows[i].Duration)]
                   @@ frame.rows[i]]]
\* Mutant: the Duration column is never looked at.
HandleCancellations_NoDuration(frame) ==
    [frame EXCEPT
       !.cols = @ \cup {"is_cancelled"},
       !.rows = [i \in 1..Len(frame.rows) |->
                   [is_cancelled |-> FALSE] @@ frame.rows[i]]]
HandleCancellations(frame) ==
    [frame EXCEPT
       !.cols = @ \cup {"is_cancelled"},
       !.rows = [i \in 1..Len(frame.rows) |->
                   [is_cancelled |-> IF "Duration" \in frame.cols
                                     THEN ContainsCancelled(frame.rows[i].Duration)
                                     ELSE FALSE]
                   @@ frame.rows[i]]]

\* Step 4: the overnight correction of one row.
OvernightShift == MinutesPerDay
mask_valid(r) == ~IsAbsent(r.actual_in) /\ ~IsAbsent(r.actual_out)
\* Mutant: equal times-of-day count as overnight too.
mask_overnight_OrEqual(r) == TimeOfDay(Val(r.actual_in)) <= TimeOfDay(Val(r.actual_out))
mask_overnight(r) == TimeOfDay(Val(r.actual_in)) < TimeOfDay(Val(r.actual_out))
HandleOvernightRow(r) ==
    IF mask_valid(r) /\ mask_overnight(r)
    THEN [r EXCEPT !.actual_in = Some(Val(@) + OvernightShift)]
    ELSE r
HandleOvernight(frame) ==
    [frame EXCEPT !.rows = [i \in 1..Len(frame.rows) |-> HandleOvernightRow(frame.rows[i])]]

\* Step 5: the metadata; a descriptive column with no value has an empty
\* mode, whose [0] raises.
ColumnCells(frame, col) == [i \in 1..Len(frame.rows) |-> frame.rows[i][col]]
MetaRaises(frame) ==
    \E col \in (RouteCols \cup {"Aircraft"}) \cap frame.cols :
        ModeRaises(ColumnCells(frame, col))
MetaField(frame, col, fallback) ==
    IF col \in frame.cols THEN ModeFirst(ColumnCells(frame, col)) ELSE fallback
ExtractMeta(frame) ==
    [origin |-> MetaField(frame, "Origin", "?"),
     dest |-> MetaField(frame, "Destination", "?"),
     aircraft |-> MetaField(frame, "Aircraft", "Unknown"),
     count |-> Len(frame.rows)]

\* The try block of process_csv_data: the exception it ends with, or the
\* frame and the metadata it returns.
ProcessCsvTry(csv) ==
    IF "Date" \notin csv.cols
    THEN [exc |-> "KeyError: 'Date'", df |-> Absent, meta |-> Absent]
    ELSE LET timed == HandleCancellations(ParseTimes(ParseDates(read_csv(csv))))
         IN  IF timed.time_dtype # "datetime64[ns]"
             THEN [exc |-> "AttributeError: Can only use .dt accessor with datetimelike values",
                   df |-> Absent, meta |-> Absent]
             ELSE LET frame == HandleOvernight(timed)
                  IN  IF MetaRaises(frame)
                      THEN [exc |-> "KeyError: 0", df |-> Absent, meta |-> Absent]
                      ELSE [exc |-> NoExc,
                            df |-> Some([frame EXCEPT !.cols = @ \cup {"source_type"}]),
                            meta |-> Some(ExtractMeta(frame))]

\* Mutant: only a ValueError is caught.
CaughtAtBoundary_ValueErrorOnly(exc) ==
    exc = "ValueError: time data does not match format"
\* The except clause of a public function: what becomes of the try block's
\* exception.
CaughtAtBoundary(exc) == TRUE

\* process_csv_data(csv_content): (df, meta), or (None, message); raised
\* names an exception that leaves the function.
process_csv_data(csv) ==
    LET t == ProcessCsvTry(csv)
    IN  IF t.exc = NoExc
        THEN [df |-> t.df, meta |-> t.meta, message |-> "", raised |-> NoExc]
        ELSE IF CaughtAtBoundary(t.exc)
             THEN [df |-> Absent, meta |-> Absent,
                   message |-> "Error processing CSV", raised |-> NoExc]
             ELSE [df |-> Absent, meta |-> Absent, message |-> "", raised |-> t.exc]

\* ------------------------------------------------------------ analyze_tail_risk
\* datetime.strptime(s, "%H:%M").time() as a time-of-day; Absent stands
\* for the ValueError of a string that does not match.
ParseClock24(s) ==
    CASE s = "00:30" -> Some(30)
      [] s = "08:30" -> Some(8 * 60 + 30)
      [] s = "09:00" -> Some(9 * 60)
      [] s = "12:00" -> Some(12 * 60)
      [] s = "23:00" -> Some(23 * 60)
      [] OTHER -> Absent

\* Arguments the analyses are drawn from: "%H:%M" strings, some malformed;
\* no deadline is None.  Todays are the dates datetime.now() may give,
\* as midnight instants.
SchedCells == {"00:30", "08:30", "23:00", "8:30PM"}
DeadlineCells == {"09:00", "12:00", "9am"}
DeadlineArgs == {Absent} \cup {Some(d) : d \in DeadlineCells}
\* A malformed scheduled time fails before the deadline is looked at: it is
\* tried without a deadline.
AnalysisArgs ==
    {a \in [sched_time : SchedCells, deadline_time : DeadlineArgs] :
        IsAbsent(ParseClock24(a.sched_time)) => IsAbsent(a.deadline_time)}
Todays == {20760 * MinutesPerDay, 20761 * MinutesPerDay}

\* combine_sched: the row's calendar date at the scheduled time-of-day.
combine_sched(r, sched_arr) ==
    IF IsAbsent(r.Date_dt) THEN Absent
    ELSE Some(Val(r.Date_dt) - TimeOfDay(Val(r.Date_dt)) + sched_arr)

\* The 24h wrap of a delay, the two assignments in their order.
WrapLow(d) == IF d < -HalfDay THEN d + MinutesPerDay ELSE d
WrapHigh(d) == IF d > HalfDay THEN d - MinutesPerDay ELSE d
FixWrap(d) == WrapHigh(WrapLow(d))

\* delay_minutes of a row: actual_in - user_sched_dt in minutes, wrapped;
\* NaN when actual_in is NaT.
DelayMinutes(r) ==
    IF IsAbsent(r.actual_in) THEN Absent
    ELSE Some(FixWrap(Val(r.actual_in) - Val(r.user_sched_dt)))

\* The caller's frame after `df['user_sched_dt'] = ...`: the column is set
\* on the object that was passed in.
WithUserSched(frame, sched_arr) ==
    [frame EXCEPT
       !.cols = @ \cup {"user_sched_dt"},
       !.rows = [i \in 1..Len(frame.rows) |->
                   [user_sched_dt |-> combine_sched(frame.rows[i], sched_arr)]
                   @@ frame.rows[i]]]

\* The function's own frame: dropna on user_sched_dt, delay_minutes, and
\* sched_in_local := actual_in.
Standardize(frame) ==
    LET kept == SelectSeq(frame.rows, LAMBDA r : ~IsAbsent(r.user_sched_dt))
    IN  [frame EXCEPT
           !.cols = @ \cup {"delay_minutes", "sched_in_local"},
           !.rows = [i \in 1..Len(kept) |->
                       [delay_minutes |-> DelayMinutes(kept[i]),
                        sched_in_local |-> kept[i].actual_in] @@ kept[i]]]

\* is_relevant_time on time-of-day minutes: the circular distance.
Abs(x) == IF x < 0 THEN -x ELSE x
\* Mutant: the difference is taken without abs().
CircularDiff_NoAbs(row_mins, user_mins) ==
    LET diff == row_mins - user_mins
    IN  IF diff > HalfDay THEN MinutesPerDay - diff ELSE diff
CircularDiff(row_mins, user_mins) ==
    LET diff == Abs(row_mins - user_mins)
    IN  IF diff > HalfDay THEN MinutesPerDay - diff ELSE diff
RelevantMinutes(row_mins, user_mins) ==
    CircularDiff(row_mins, user_mins) <= RelevanceWindow

\* Mutant: a missing instant is hidden.
is_relevant_time_MissingHidden(row_sched_dt, user_mins) ==
    IF IsAbsent(row_sched_dt) THEN FALSE
    ELSE RelevantMinutes(TimeOfDay(Val(row_sched_dt)), user_mins)
\* is_relevant_time(row_sched_dt): a missing instant is relevant.
is_relevant_time(row_sched_dt, user_mins) ==
    IF IsAbsent(row_sched_dt) THEN TRUE
    ELSE RelevantMinutes(TimeOfDay(Val(row_sched_dt)), user_mins)

\* Rounding of the non-negative fraction a/b to an integer, ties to even
\* (Python's format of a float; a/b is exact in binary at every tie the
\* bounds reach).
RoundHalfEven(a, b) ==
    LET q == a \div b
        r == a % b
    IN  IF 2 * r < b THEN q
        ELSE IF 2 * r > b THEN q + 1
        ELSE IF q % 2 = 0 THEN q ELSE q + 1

\* f"{k / n:.1%}" as tenths of a percent; 0 when n = 0 (the rate is 0).
FormatPercent(k, n) == IF n > 0 THEN RoundHalfEven(1000 * k, n) ELSE 0

\* f"{avg:+.0f}" of the mean sum/n: the sign written and the digits; the
\* mean of no delays is the integer 0.
FormatSigned(sum, n) ==
    IF n = 0 THEN [sign |-> "+", digits |-> 0]
    ELSE [sign |-> IF sum < 0 THEN "-" ELSE "+",
          digits |-> RoundHalfEven(IF sum < 0 THEN -sum ELSE sum, n)]

\* Mutant: the scheduled time is combined with a date read earlier than
\* the deadline's.
BufferMinutes_StaleDate(today, deadline_mins, sched_arr) ==
    LET dt_deadline == today + deadline_mins
        dt_sched == 20760 * MinutesPerDay + sched_arr
        buffer_mins == dt_deadline - dt_sched
    IN  IF buffer_mins < -HalfDay THEN buffer_mins + MinutesPerDay ELSE buffer_mins
\* Mutant: a buffer above half a day is wrapped to the previous day as well.
BufferMinutes_WrapsHigh(today, deadline_mins, sched_arr) ==
    LET dt_deadline == today + deadline_mins
        dt_sched == today + sched_arr
        buffer_mins == dt_deadline - dt_sched
    IN  IF buffer_mins < -HalfDay THEN buffer_mins + MinutesPerDay
        ELSE IF buffer_mins > HalfDay THEN buffer_mins - MinutesPerDay
        ELSE buffer_mins
\* Mutant: a negative buffer is never wrapped to the next day.
BufferMinutes_NoWrap(today, deadline_mins, sched_arr) ==
    (today + deadline_mins) - (today + sched_arr)
\* buffer_mins: deadline minus scheduled, both combined with today.
BufferMinutes(today, deadline_mins, sched_arr) ==
    LET dt_deadline == today + deadline_mins
        dt_sched == today + sched_arr
        buffer_mins == dt_deadline - dt_sched
    IN  IF buffer_mins < -HalfDay THEN buffer_mins + MinutesPerDay ELSE buffer_mins

\* Mutant: the comparison with the buffer is turned round.
Missed_Below(valid, buffer_mins) ==
    SelectSeq(valid, LAMBDA r : Val(r.delay_minutes) < buffer_mins)
\* The rows of valid_df whose delay exceeds the buffer.
Missed(valid, buffer_mins) ==
    SelectSeq(valid, LAMBDA r : Val(r.delay_minutes) > buffer_mins)

MissCount(valid, buffer_mins, cancel_count) ==
    Len(Missed(valid, buffer_mins)) + cancel_count

\* prob_miss > 0.15
IsHighRisk(miss_count, total_relevant) ==
    total_relevant > 0 /\ 100 * miss_count > HighRiskPercent * total_relevant

\* The route of the report: the modes of the relevant rows' Origin and
\* Destination, which raise when a column is there and has no value.
RouteRaises(relevant, cols) ==
    \E col \in RouteCols \cap cols :
        ModeRaises([i \in 1..Len(relevant) |-> relevant[i][col]])
RouteField(relevant, cols, col) ==
    IF col \in cols THEN ModeFirst([i \in 1..Len(relevant) |-> relevant[i][col]])
    ELSE "?"

\* Mutant: the valid set keeps the cancelled rows that have a delay.
AnalyzeMetrics_ValidKeepsCancelled(frame, user_mins) ==
    LET rows == [i \in 1..Len(frame.rows) |->
                   [is_relevant |-> is_relevant_time(frame.rows[i].sched_in_local, user_mins)]
                   @@ frame.rows[i]]
        relevant_df == SelectSeq(rows, LAMBDA r : r.is_relevant)
        valid_df == SelectSeq(relevant_df, LAMBDA r : ~IsAbsent(r.delay_minutes))
        delays == [i \in 1..Len(valid_df) |-> Val(valid_df[i].delay_minutes)]
    IN  [rows |-> rows,
         relevant_df |-> relevant_df,
         hidden_count |-> Len(rows) - Len(relevant_df),
         cancel_count |-> Len(SelectSeq(relevant_df, LAMBDA r : r.is_cancelled)),
         total_relevant |-> Len(relevant_df),
         valid_df |-> valid_df,
         delays |-> delays,
         severe_count |-> Len(SelectSeq(valid_df,
                                   LAMBDA r : Val(r.delay_minutes) > SevereThreshold))]
\* Steps 2 and 3 of the analysis on the function's own frame: the filter
\* and the metrics that need no deadline.
AnalyzeMetrics(frame, user_mins) ==
    LET rows == [i \in 1..Len(frame.rows) |->
                   [is_relevant |-> is_relevant_time(frame.rows[i].sched_in_local, user_mins)]
                   @@ frame.rows[i]]
        relevant_df == SelectSeq(rows, LAMBDA r : r.is_relevant)
        valid_df == SelectSeq(relevant_df,
                              LAMBDA r : ~r.is_cancelled /\ ~IsAbsent(r.delay_minutes))
        delays == [i \in 1..Len(valid_df) |-> Val(valid_df[i].delay_minutes)]
    IN  [rows |-> rows,
         relevant_df |-> relevant_df,
         hidden_count |-> Len(rows) - Len(relevant_df),
         cancel_count |-> Len(SelectSeq(relevant_df, LAMBDA r : r.is_cancelled)),
         total_relevant |-> Len(relevant_df),
         valid_df |-> valid_df,
         delays |-> delays,
         severe_count |-> Len(SelectSeq(valid_df,
                                   LAMBDA r : Val(r.delay_minutes) > SevereThreshold))]

\* The deadline branch: buffer_mins, miss_count, the probability's text and
\* the risk flag; without a deadline "N/A" (Absent) and False.
AnalyzeDeadline(m, has_deadline, today, deadline_mins, sched_arr) ==
    IF ~has_deadline
    THEN [buffer_mins |-> Absent, miss_count |-> Absent,
          prob_miss_text |-> Absent, is_high_risk |-> FALSE]
    ELSE LET buffer_mins == BufferMinutes(today, deadline_mins, sched_arr)
             miss_count == MissCount(m.valid_df, buffer_mins, m.cancel_count)
         IN  [buffer_mins |-> Some(buffer_mins),
              miss_count |-> Some(miss_count),
              prob_miss_text |-> Some(FormatPercent(miss_count, m.total_relevant)),
              is_high_risk |-> IsHighRisk(miss_count, m.total_relevant)]

\* The dict the function returns.
Report(m, d, cols) ==
    [total_flights |-> Len(m.rows),
     relevant_flights |-> m.total_relevant,
     hidden_flights |-> m.hidden_count,
     cancellation_rate |-> FormatPercent(m.cancel_count, m.total_relevant),
     average_delay_minutes |-> FormatSigned(SumSeq(m.delays), Len(m.delays)),
     severe_delays_count |-> m.severe_count,
     deadline_miss_probability |-> d.prob_miss_text,
     is_high_risk |-> d.is_high_risk,
     delay_distribution |-> m.delays,
     route |-> [origin |-> RouteField(m.relevant_df, cols, "Origin"),
                dest |-> RouteField(m.relevant_df, cols, "Destination")]]

\* The try block of analyze_tail_risk.  df is the caller's frame (None is
\* Absent) and today the date datetime.now() gives if it is asked.  The
\* result names the exception it ends with, the caller's frame as the call
\* leaves it, the report, the values of the function's locals (m: filter
\* and metrics, d: deadline branch) and the date that was read, if any.
Failed(exc, caller_df, now) ==
    [exc |-> exc, df |-> caller_df, report |-> Absent, m |-> Absent, d |-> Absent,
     today |-> now]

AnalyzeTry(df, sched_time, deadline_time, today) ==
    LET sched == ParseClock24(sched_time)
    IN  IF IsAbsent(sched) THEN Failed("ValueError: time data does not match format", df, Absent)
        ELSE IF IsAbsent(df) THEN Failed("TypeError: 'NoneType' object is not subscriptable", df, Absent)
        ELSE IF Len(Val(df).rows) = 0 THEN Failed("IndexError: single positional indexer is out-of-bounds", df, Absent)
        ELSE
          LET sched_arr == Val(sched)
              caller == WithUserSched(Val(df), sched_arr)
              m == AnalyzeMetrics(Standardize(caller), sched_arr)
              has_deadline == ~IsAbsent(deadline_time)
              deadline == IF has_deadline THEN ParseClock24(Val(deadline_time)) ELSE Absent
              now == IF has_deadline THEN Some(today) ELSE Absent
          IN  IF has_deadline /\ IsAbsent(deadline)
              THEN Failed("ValueError: time data does not match format", Some(caller), now)
              ELSE LET d == AnalyzeDeadline(m, has_deadline, today,
                                            IF has_deadline THEN Val(deadline) ELSE 0,
                                            sched_arr)
                   IN  IF RouteRaises(m.relevant_df, caller.cols)
                       THEN Failed("KeyError: 0", Some(caller), now)
                       ELSE [exc |-> NoExc, df |-> Some(caller),
                             report |-> Some(Report(m, d, caller.cols)),
                             m |-> Some(m), d |-> Some(d), today |-> now]

\* analyze_tail_risk(df, sched_time, deadline_time): the report, or
\* {"error": message}; raised names an exception that leaves the function.
analyze_tail_risk(df, sched_time, deadline_time, today) ==
    LET t == AnalyzeTry(df, sched_time, deadline_time, today)
    IN  IF t.exc = NoExc
        THEN [df |-> t.df, report |-> t.report, error |-> "", raised |-> NoExc,
              m |-> t.m, d |-> t.d, today |-> t.today]
        ELSE IF CaughtAtBoundary(t.exc)
             THEN [df |-> t.df, report |-> Absent, error |-> "Analysis failed",
                   raised |-> NoExc, m |-> Absent, d |-> Absent, today |-> t.today]
             ELSE [df |-> t.df, report |-> Absent, error |-> "",
                   raised |-> t.exc, m |-> Absent, d |-> Absent, today |-> t.today]

\* ------------------------------------------------------------ risk categories
\* Mutant: the comparisons admit equality.
get_category_NotStrict(delay, has_deadline, buffer_mins) ==
    IF has_deadline /\ delay >= Val(buffer_mins) THEN "Missed Deadline"
    ELSE IF delay >= SevereThreshold THEN "Significant (>45m)"
    ELSE IF delay >= NuisanceThreshold THEN "Nuisance (15-45m)"
    ELSE "On Time / Early (<15m)"
\* get_category(row) of the plot: the first test that holds names the
\* category; buffer_mins is looked at only when there is a deadline.
get_category(delay, has_deadline, buffer_mins) ==
    IF has_deadline /\ delay > Val(buffer_mins) THEN "Missed Deadline"
    ELSE IF delay > SevereThreshold THEN "Significant (>45m)"
    ELSE IF delay > NuisanceThreshold THEN "Nuisance (15-45m)"
    ELSE "On Time / Early (<15m)"

\* valid_df['Risk Category'] = valid_df.apply(get_category, axis=1)
RiskCategories(valid, has_deadline, buffer_mins) ==
    [i \in 1..Len(valid) |->
        get_category(Val(valid[i].delay_minutes), has_deadline, buffer_mins)]

\* ------------------------------------------------------------ fetch_live_history
\* Flight objects of the tracking API (src/app.py).  Timestamps are UTC
\* instants; a key that is missing or null is Absent.  A cancelled flight
\* has no arrival; a flight without scheduled_out has no other timestamp.
ApiDay == 20413 * MinutesPerDay
Flights ==
    {f \in [dest_tz : {"UTC", "Europe/Paris"},
            actual_in : {Absent, Some(ApiDay + 8 * 60 + 20)},
            estimated_in : {Absent, Some(ApiDay + 8 * 60 + 50)},
            scheduled_in : {Absent, Some(ApiDay + 8 * 60)},
            scheduled_out : {Absent, Some(ApiDay + 6 * 60)},
            status : {"Arrived", "Cancelled"}] :
        /\ IsAbsent(f.actual_in) \/ IsAbsent(f.estimated_in)
        /\ f.status = "Cancelled" =>
              /\ IsAbsent(f.actual_in) /\ IsAbsent(f.estimated_in)
              /\ f.dest_tz = "Europe/Paris"
              /\ ~IsAbsent(f.scheduled_out)
        /\ IsAbsent(f.scheduled_out) =>
              /\ IsAbsent(f.actual_in) /\ IsAbsent(f.estimated_in)
              /\ IsAbsent(f.scheduled_in)
              /\ f.dest_tz = "UTC"
              /\ f.status = "Arrived"}

\* What the request of fetch_live_history meets: a missing key, a status
\* code, and the flights of the JSON body.
ApiResponses ==
    {[api_key |-> TRUE, status_code |-> 200, flights |-> fs] :
        fs \in SeqsUpTo(Flights, MaxFlights)}
    \cup {[api_key |-> FALSE, status_code |-> 200, flights |-> <<>>],
          [api_key |-> TRUE, status_code |-> 401, flights |-> <<>>]}

\* ts.tz_convert(dest_tz).tz_localize(None): the wall clock of the zone
\* (Europe/Paris in November is UTC+1).
UtcOffset(tz) == IF tz = "Europe/Paris" THEN 60 ELSE 0
tz_convert_naive(ts, tz) == ts + UtcOffset(tz)
\* pd.to_datetime(ts).tz_localize(None): the zone is dropped, the wall
\* clock of the timestamp's own zone, UTC, is kept.
tz_localize_none(ts) == ts

\* The dict of one flight; keys names the keys the dict has.  The else
\* branch sets Date_dt and delay_minutes and no sched_in_local.
BaseKeys == {"origin", "dest", "aircraft", "is_cancelled", "source_type"}
HasArrivalData(f) ==
    /\ ~IsAbsent(f.actual_in) \/ ~IsAbsent(f.estimated_in)
    /\ ~IsAbsent(f.scheduled_in)
ProcessFlight(f, i) ==
    LET utc_in == IF ~IsAbsent(f.actual_in) THEN f.actual_in ELSE f.estimated_in
        base == [label |-> i, origin |-> Some("BCN"), dest |-> Some("CDG"),
                 aircraft |-> Some("A320"),
                 is_cancelled |-> f.status = "Cancelled",
                 source_type |-> "api"]
    IN  IF HasArrivalData(f)
        THEN LET actual_in_local == tz_convert_naive(Val(utc_in), f.dest_tz)
                 sched_in_local == tz_convert_naive(Val(f.scheduled_in), f.dest_tz)
             IN  [keys |-> BaseKeys \cup {"actual_in_local", "sched_in_local",
                                          "Date_dt", "delay_minutes"},
                  actual_in_local |-> Some(actual_in_local),
                  sched_in_local |-> Some(sched_in_local),
                  Date_dt |-> Some(sched_in_local),
                  delay_minutes |-> Some(actual_in_local - sched_in_local)] @@ base
        ELSE [keys |-> BaseKeys \cup {"Date_dt", "delay_minutes"},
              actual_in_local |-> Absent,
              sched_in_local |-> Absent,
              Date_dt |-> IF IsAbsent(f.scheduled_out) THEN Absent
                          ELSE Some(tz_localize_none(Val(f.scheduled_out))),
              delay_minutes |-> Absent] @@ base
\* pd.to_datetime(None) is None, and None has no tz_localize.
ProcessFlightRaises(f) == ~HasArrivalData(f) /\ IsAbsent(f.scheduled_out)

\* pd.DataFrame(processed): the columns are the keys some dict has, a key
\* a dict lacks is NaN/NaT in its row.
DataFrameOf(processed) ==
    [cols |-> UNION {processed[i].keys : i \in 1..Len(processed)},
     rows |-> processed]

\* fetch_live_history(ident, api_key) on a response: (df, meta), or
\* (None, message).
fetch_live_history(resp) ==
    IF ~resp.api_key
    THEN [df |-> Absent, meta |-> Absent, message |-> "No API Key.", raised |-> NoExc]
    ELSE IF resp.status_code # 200
    THEN [df |-> Absent, meta |-> Absent, message |-> "API Error status", raised |-> NoExc]
    ELSE IF Len(resp.flights) = 0
    THEN [df |-> Absent, meta |-> Absent, message |-> "No history.", raised |-> NoExc]
    ELSE IF \E i \in 1..Len(resp.flights) : ProcessFlightRaises(resp.flights[i])
    THEN [df |-> Absent, meta |-> Absent, message |-> "API Error: exception",
          raised |-> NoExc]
    ELSE LET frame == DataFrameOf([i \in 1..Len(resp.flights) |->
                                      ProcessFlight(resp.flights[i], i)])
         IN  [df |-> Some(frame),
              meta |-> Some([origin |-> ModeFirst(ColumnCells(frame, "origin")),
                             dest |-> ModeFirst(ColumnCells(frame, "dest")),
                             aircraft |-> ModeFirst(ColumnCells(frame, "aircraft")),
                             count |-> Len(frame.rows)]),
              message |-> "", raised |-> NoExc]

\* ------------------------------------------------------------ analysis engine (API)
\* The script's analysis of an API frame: no standardization (source_type
\* is 'api'), the filter on the sched_in_local column, the metrics, the
\* deadline branch and the categories.  Nothing catches an exception here.
\* sched_arr and deadline are times of st.time_input, as minutes.
ApiSchedArrs == {9 * 60, 20 * 60}
ApiDeadlines == {Absent, Some(10 * 60)}

EngineSkipped(caller_df) ==
    [df |-> caller_df, shown |-> Absent, raised |-> NoExc, m |-> Absent, d |-> Absent,
     today |-> Absent]

analysis_engine(caller_df, sched_arr, deadline, now) ==
    IF IsAbsent(caller_df) THEN EngineSkipped(caller_df)
    ELSE IF "sched_in_local" \notin Val(caller_df).cols
    THEN [EngineSkipped(caller_df) EXCEPT !.raised = "KeyError: 'sched_in_local'"]
    ELSE LET has_deadline == ~IsAbsent(deadline)
             m == AnalyzeMetrics(Val(caller_df), sched_arr)
             d == AnalyzeDeadline(m, has_deadline, now,
                                  IF has_deadline THEN Val(deadline) ELSE 0, sched_arr)
         IN  [df |-> Some([cols |-> Val(caller_df).cols \cup {"is_relevant"},
                           rows |-> m.rows]),
              shown |-> Some([total_flights |-> Len(m.rows),
                              relevant_flights |-> m.total_relevant,
                              hidden_flights |-> m.hidden_count,
                              cancellation_rate |-> FormatPercent(m.cancel_count,
                                                                  m.total_relevant),
                              average_delay_minutes |-> FormatSigned(SumSeq(m.delays),
                                                                     Len(m.delays)),
                              severe_delays_count |-> m.severe_count,
                              deadline_miss_probability |-> d.prob_miss_text,
                              is_high_risk |-> d.is_high_risk,
                              categories |-> RiskCategories(m.valid_df, has_deadline,
                                                            d.buffer_mins)]),
              raised |-> NoExc, m |-> Some(m), d |-> Some(d),
              today |-> IF has_deadline THEN Some(now) ELSE Absent]

\* ------------------------------------------------------------ state
VARIABLES
    pc,            \* "start", "ingested", "analyzed"
    csv_content,   \* the CSV text given to process_csv_data
    df,            \* the caller's DataFrame, None before and after a failed ingest
    meta,          \* the metadata dict of a successful ingest
    message,       \* the message of a failed ingest
    sched_time,    \* the arguments of the analysis
    deadline_time,
    today,         \* datetime.now().date(), if the analysis read it
    result,        \* what analyze_tail_risk returned: report or error
    locals,        \* the values of the analysis's locals at its return
    raised,        \* an exception that left a public function
    probe          \* the inputs and outputs of the specifications that call one
                   \* part of the program: is_relevant_time (FilterSpec), the
                   \* buffer (BufferSpec), get_category (CategorySpec), and the
                   \* API response and the sidebar's times (ApiSpec)

vars == <<pc, csv_content, df, meta, message, sched_time, deadline_time, today,
          result, locals, raised, probe>>

NoResult == [report |-> Absent, error |-> ""]
NoLocals == [m |-> Absent, d |-> Absent]

Init ==
    /\ pc = "start"
    /\ csv_content = Absent
    /\ df = Absent
    /\ meta = Absent
    /\ message = ""
    /\ sched_time = ""
    /\ deadline_time = Absent
    /\ today = Absent
    /\ result = NoResult
    /\ locals = NoLocals
    /\ raised = NoExc
    /\ probe = Absent

\* The caller hands a CSV text to process_csv_data.
ProcessCsvData ==
    /\ pc = "start"
    /\ \E csv \in CsvInputs :
         LET r == process_csv_data(csv)
         IN  /\ csv_content' = Some(csv)
             /\ df' = r.df
             /\ meta' = r.meta
             /\ message' = r.message
             /\ raised' = r.raised
    /\ pc' = "ingested"
    /\ UNCHANGED <<sched_time, deadline_time, today, result, locals, probe>>

\* The caller analyses what the ingest returned.
AnalyzeTailRisk ==
    /\ pc = "ingested"
    /\ \E a \in AnalysisArgs, now \in Todays :
         LET r == analyze_tail_risk(df, a.sched_time, a.deadline_time, now)
         IN  /\ sched_time' = a.sched_time
             /\ deadline_time' = a.deadline_time
             /\ today' = r.today
             /\ df' = r.df
             /\ result' = [report |-> r.report, error |-> r.error]
             /\ locals' = [m |-> r.m, d |-> r.d]
             /\ raised' = r.raised
    /\ pc' = "analyzed"
    /\ UNCHANGED <<csv_content, meta, message, probe>>

Next == ProcessCsvData \/ AnalyzeTailRisk

Spec == Init /\ [][Next]_vars

\* ------------------------------------------------------------ FilterSpec
\* is_relevant_time alone: the user's time-of-day is any minute of the day,
\* and the filter is called on an instant whose time-of-day lies at one of
\* ProbeOffsets from it around the clock, and on the pair the other way
\* round.
ProbeOffsets ==
    {-HalfDay - 1, -HalfDay, -RelevanceWindow - 1, -RelevanceWindow, -1, 0, 1,
     RelevanceWindow, RelevanceWindow + 1, HalfDay, HalfDay + 1}
ProbeDate == 20413 * MinutesPerDay

FilterInit ==
    /\ pc = "start"
    /\ csv_content = Absent
    /\ df = Absent
    /\ meta = Absent
    /\ message = ""
    /\ sched_time = ""
    /\ deadline_time = Absent
    /\ today = Absent
    /\ result = NoResult
    /\ locals = NoLocals
    /\ raised = NoExc
    /\ probe \in {[user_mins |-> u, offset |-> Absent, row_mins |-> Absent,
                   relevant |-> Absent, reverse |-> Absent] :
                    u \in 0..(MinutesPerDay - 1)}

IsRelevantTime ==
    /\ IsAbsent(probe.offset)
    /\ \E k \in ProbeOffsets :
         LET u == probe.user_mins
             r == (u + k) % MinutesPerDay
         IN  probe' = [user_mins |-> u,
                       offset |-> Some(k),
                       row_mins |-> Some(r),
                       relevant |-> Some(is_relevant_time(Some(ProbeDate + r), u)),
                       reverse |-> Some(is_relevant_time(Some(ProbeDate + u), r))]
    /\ UNCHANGED <<pc, csv_content, df, meta, message, sched_time, deadline_time,
                   today, result, locals, raised>>

FilterNext == IsRelevantTime

FilterSpec == FilterInit /\ [][FilterNext]_vars

\* ------------------------------------------------------------ BufferSpec
\* The deadline branch's buffer alone: the scheduled time-of-day is any
\* minute of the day, and the buffer is computed for a deadline whose
\* time-of-day lies one of BufferRaws minutes from it within the day.
BufferRaws ==
    {-(MinutesPerDay - 1), -HalfDay - 1, -HalfDay, -1, 0, 1, HalfDay, HalfDay + 1,
     MinutesPerDay - 1}

BufferInit ==
    /\ pc = "start"
    /\ csv_content = Absent
    /\ df = Absent
    /\ meta = Absent
    /\ message = ""
    /\ sched_time = ""
    /\ deadline_time = Absent
    /\ today = Absent
    /\ result = NoResult
    /\ locals = NoLocals
    /\ raised = NoExc
    /\ probe \in {[sched_arr |-> u, deadline_mins |-> Absent, buffer_mins |-> Absent] :
                    u \in 0..(MinutesPerDay - 1)}

ComputeBuffer ==
    /\ IsAbsent(probe.buffer_mins)
    /\ \E raw \in BufferRaws, now \in Todays :
         LET u == probe.sched_arr
             d == u + raw
         IN  /\ d \in 0..(MinutesPerDay - 1)
             /\ today' = Some(now)
             /\ probe' = [sched_arr |-> u,
                           deadline_mins |-> Some(d),
                           buffer_mins |-> Some(BufferMinutes(now, d, u))]
    /\ UNCHANGED <<pc, csv_content, df, meta, message, sched_time, deadline_time,
                   result, locals, raised>>

BufferNext == ComputeBuffer

BufferSpec == BufferInit /\ [][BufferNext]_vars

\* ------------------------------------------------------------ CategorySpec
\* The categorization alone: a valid set of up to MaxValid delays, a count
\* of relevant cancelled records, and a deadline's buffer or none; the
\* miss count of the deadline branch is taken beside the categories.
DelayCells ==
    {-5, NuisanceThreshold, NuisanceThreshold + 1, SevereThreshold,
     SevereThreshold + 1, 60, 90}
BufferCells == {-10, NuisanceThreshold, SevereThreshold, 60}
CancelCounts == 0..1

CategoryInit ==
    /\ pc = "start"
    /\ csv_content = Absent
    /\ df = Absent
    /\ meta = Absent
    /\ message = ""
    /\ sched_time = ""
    /\ deadline_time = Absent
    /\ today = Absent
    /\ result = NoResult
    /\ locals = NoLocals
    /\ raised = NoExc
    /\ probe \in {[has_deadline |-> h, buffer_mins |-> b, cancel_count |-> c,
                    valid_df |-> [i \in 1..Len(ds) |-> [delay_minutes |-> Some(ds[i])]],
                    categories |-> Absent, miss_count |-> Absent] :
                    h \in BOOLEAN, b \in {Absent} \cup {Some(x) : x \in BufferCells},
                    c \in CancelCounts, ds \in SeqsUpTo(DelayCells, MaxValid)}
    /\ probe.has_deadline <=> ~IsAbsent(probe.buffer_mins)

Categorize ==
    /\ IsAbsent(probe.categories)
    /\ probe' = [probe EXCEPT
                    !.categories = Some(RiskCategories(probe.valid_df, probe.has_deadline,
                                                       probe.buffer_mins)),
                    !.miss_count = IF probe.has_deadline
                                   THEN Some(MissCount(probe.valid_df, Val(probe.buffer_mins),
                                                       probe.cancel_count))
                                   ELSE Absent]
    /\ UNCHANGED <<pc, csv_content, df, meta, message, sched_time, deadline_time,
                   today, result, locals, raised>>

CategoryNext == Categorize

CategorySpec == CategoryInit /\ [][CategoryNext]_vars

\* ------------------------------------------------------------ ApiSpec
\* The script on the FlightAware path: fetch_live_history on a response,
\* then the analysis engine with the sidebar's times.
ApiInit == Init

FetchLiveHistory ==
    /\ pc = "start"
    /\ \E resp \in ApiResponses :
         LET r == fetch_live_history(resp)
         IN  /\ probe' = [response |-> resp, sched_arr |-> Absent, deadline |-> Absent]
             /\ df' = r.df
             /\ meta' = r.meta
             /\ message' = r.message
             /\ raised' = r.raised
    /\ pc' = "fetched"
    /\ UNCHANGED <<csv_content, sched_time, deadline_time, today, result, locals>>

AnalysisEngine ==
    /\ pc = "fetched"
    /\ \E u \in ApiSchedArrs, dl \in ApiDeadlines, now \in Todays :
         LET r == analysis_engine(df, u, dl, now)
         IN  /\ probe' = [probe EXCEPT !.sched_arr = Some(u), !.deadline = dl]
             /\ today' = r.today
             /\ df' = r.df
             /\ result' = [report |-> r.shown, error |-> ""]
             /\ locals' = [m |-> r.m, d |-> r.d]
             /\ raised' = r.raised
    /\ pc' = "analyzed"
    /\ UNCHANGED <<csv_content, meta, message, sched_time, deadline_time>>

ApiNext == FetchLiveHistory \/ AnalysisEngine

ApiSpec == ApiInit /\ [][ApiNext]_vars

\* ------------------------------------------------------------ claims
Analyzed == pc = "analyzed"
Ingested == pc # "start"
IngestOk == Ingested /\ ~IsAbsent(meta)
ReportOk == Analyzed /\ ~IsAbsent(result.report)
TheCsv == Val(csv_content)
TheReport == Val(result.report)
TheMetrics == Val(locals.m)
TheDeadline == Val(locals.d)

\* C1 (as claimed): every delay_minutes the normalizer produces, the
\* overnight-corrected arrivals included, is at most 720 in absolute value
\* after the 24h wrap.
C1_DelayWithinHalfDay ==
    ReportOk =>
        \A i \in 1..Len(TheMetrics.rows) :
            ~IsAbsent(TheMetrics.rows[i].delay_minutes) =>
                Abs(Val(TheMetrics.rows[i].delay_minutes)) <= HalfDay

\* C2: the relevance filter is symmetric in the record's and the user's
\* time-of-day, for every pair of minutes of the day; a record exactly 180
\* minutes away around the clock, in either direction, is relevant and one
\* 181 minutes away is not.
C2_FilterSymmetricHardBoundary ==
    /\ IsAbsent(probe.offset) =>
          \A r \in 0..(MinutesPerDay - 1) :
              is_relevant_time(Some(ProbeDate + r), probe.user_mins)
                  = is_relevant_time(Some(ProbeDate + probe.user_mins), r)
    /\ ~IsAbsent(probe.offset) =>
          /\ probe.relevant = probe.reverse
          /\ Abs(Val(probe.offset)) = RelevanceWindow => Val(probe.relevant)
          /\ Abs(Val(probe.offset)) = RelevanceWindow + 1 => ~Val(probe.relevant)

\* C2 witness: the filter has accepted a record 180 minutes after the
\* user's time across midnight.
C2_Witness ==
    /\ ~IsAbsent(probe.offset)
    /\ Val(probe.offset) = RelevanceWindow
    /\ Val(probe.row_mins) < probe.user_mins
    /\ Val(probe.relevant)

\* The analysis returned a report and had a deadline.
DeadlineOk == ReportOk /\ ~IsAbsent(TheDeadline.buffer_mins)

\* Buffers a deadline could have left: every quarter of an hour of the
\* buffer's range, and the minutes around each delay of the valid set.
BufferProbes(delays) ==
    {b \in (-HalfDay)..(MinutesPerDay - 1) : b % 15 = 0}
        \cup UNION {{delays[i] - 1, delays[i], delays[i] + 1} : i \in 1..Len(delays)}

\* C3: with the records and the scheduled time fixed, a smaller buffer
\* never gives a smaller miss count, miss probability or probability text,
\* and a larger buffer never a larger one.
C3_MissProbabilityMonotone ==
    DeadlineOk =>
        LET n == TheMetrics.total_relevant
            b == Val(TheDeadline.buffer_mins)
            k == Val(TheDeadline.miss_count)
        IN  \A b2 \in BufferProbes(TheMetrics.delays) :
                LET k2 == MissCount(TheMetrics.valid_df, b2, TheMetrics.cancel_count)
                IN  /\ b2 <= b => /\ k2 >= k
                                  /\ FormatPercent(k2, n) >= FormatPercent(k, n)
                    /\ b2 >= b => /\ k2 <= k
                                  /\ FormatPercent(k2, n) <= FormatPercent(k, n)

\* C3 witness: a report whose miss count is below the one a smaller buffer
\* gives on the same records.
C3_Witness ==
    /\ DeadlineOk
    /\ \E b2 \in BufferProbes(TheMetrics.delays) :
          /\ b2 < Val(TheDeadline.buffer_mins)
          /\ MissCount(TheMetrics.valid_df, b2, TheMetrics.cancel_count)
                > Val(TheDeadline.miss_count)

\* The labels of the text's rows whose Duration cell says Cancelled.
CancelledLabels ==
    IF "Duration" \in TheCsv.cols
    THEN {i \in 1..Len(TheCsv.rows) : TheCsv.rows[i].Duration = "Cancelled"}
    ELSE {}
LabelsOf(rows) == {rows[i].label : i \in 1..Len(rows)}

\* C4 (as claimed): every row whose Duration says Cancelled is outside the
\* valid set and is counted in the cancellation numerator and in miss_count.
C4_EveryCancelledRowCounted ==
    ReportOk =>
        /\ LabelsOf(TheMetrics.valid_df) \cap CancelledLabels = {}
        /\ TheMetrics.cancel_count = Cardinality(CancelledLabels)
        /\ DeadlineOk =>
              Val(TheDeadline.miss_count)
                  - Len(Missed(TheMetrics.valid_df, Val(TheDeadline.buffer_mins)))
                  = Cardinality(CancelledLabels)

\* C4 (amended): every row whose Duration says Cancelled is outside the
\* valid set; the cancelled rows the relevance filter keeps, and only they,
\* make up the cancellation numerator and the cancelled part of miss_count.
C4_RelevantCancelledRowCounted ==
    ReportOk =>
        LET kept == LabelsOf(TheMetrics.relevant_df) \cap CancelledLabels
        IN  /\ LabelsOf(TheMetrics.valid_df) \cap CancelledLabels = {}
            /\ TheMetrics.cancel_count = Cardinality(kept)
            /\ TheReport.cancellation_rate
                  = FormatPercent(Cardinality(kept), TheReport.relevant_flights)
            /\ DeadlineOk =>
                  Val(TheDeadline.miss_count)
                      - Len(Missed(TheMetrics.valid_df, Val(TheDeadline.buffer_mins)))
                      = Cardinality(kept)

\* C4 witness: a report with a deadline over a cancelled row the filter
\* kept and a valid row beside it.
C4_Witness ==
    /\ DeadlineOk
    /\ LabelsOf(TheMetrics.relevant_df) \cap CancelledLabels # {}
    /\ TheMetrics.cancel_count = 1
    /\ Len(TheMetrics.valid_df) = 1

\* The text's cells as a reader of the CSV sees them.
RowCount == Len(TheCsv.rows)
DateParses(i) == TheCsv.rows[i].Date = "21-Nov-25"
ClockOf(cell) ==
    CASE cell \in {"12:30AM"} -> Some(30)
      [] cell \in {"08:45AM", "08:45AM CET"} -> Some(525)
      [] cell \in {"10:00PM"} -> Some(1320)
      [] cell \in {"11:00PM CEST"} -> Some(1380)
      [] OTHER -> Absent
DepartureOf(i) == ClockOf(TheCsv.rows[i].Departure)
ArrivalOf(i) == ClockOf(TheCsv.rows[i].Arrival)
SchedOf(s) ==
    CASE s = "00:30" -> Some(30) [] s = "08:30" -> Some(510)
      [] s = "23:00" -> Some(1380) [] OTHER -> Absent
DeadlineOf(d) ==
    CASE d = <<"09:00">> -> Some(540) [] d = <<"12:00">> -> Some(720)
      [] OTHER -> Absent
\* The distance of two times-of-day around the clock.
ClockDistance(a, b) ==
    LET d == IF a >= b THEN a - b ELSE b - a
    IN  IF d <= MinutesPerDay - d THEN d ELSE MinutesPerDay - d

\* The case C5 is about: a well-formed scheduled time and deadline, and a
\* text whose rows all parse, are not cancelled, arrive within 180 minutes
\* of the scheduled time around the clock and at or before the deadline's
\* time-of-day.
C5_Case ==
    /\ Analyzed
    /\ "Date" \in TheCsv.cols
    /\ ~IsAbsent(SchedOf(sched_time))
    /\ ~IsAbsent(DeadlineOf(deadline_time))
    /\ \A i \in 1..RowCount :
          /\ DateParses(i)
          /\ ~IsAbsent(DepartureOf(i))
          /\ ~IsAbsent(ArrivalOf(i))
          /\ i \notin CancelledLabels
          /\ ClockDistance(Val(ArrivalOf(i)), Val(SchedOf(sched_time))) <= RelevanceWindow
          /\ Val(ArrivalOf(i)) <= Val(DeadlineOf(deadline_time))

C5_Outcome ==
    /\ ReportOk
    /\ result.error = ""
    /\ TheReport.relevant_flights = RowCount
    /\ TheReport.hidden_flights = 0
    /\ TheReport.cancellation_rate = 0
    /\ TheReport.deadline_miss_probability = Some(0)

\* C5 (as claimed): in that case the report has no error, every row is
\* relevant, none is hidden, and the cancellation rate and the miss
\* probability are 0.  The claim is read here on texts that have a row and
\* descriptive values, as its three-row instance has: a text with no row,
\* or with no Origin at all, is refused by the ingest and fails it too.
C5_AllOnTimeReport == (C5_Case /\ RowCount >= 1 /\ TheCsv.filled) => C5_Outcome

\* C5 (amended): the same, for a text of at least one row whose descriptive
\* columns hold a value, and with the deadline read on the day cycle the
\* code reads it on: where an arrival lies more than 720 minutes before the
\* scheduled time-of-day (past midnight of a late-evening schedule), so
\* does the deadline.
C5_AllOnTimeReportSameCycle ==
    ( /\ C5_Case
      /\ RowCount >= 1
      /\ TheCsv.filled
      /\ \A i \in 1..RowCount :
            Val(ArrivalOf(i)) - Val(SchedOf(sched_time)) < -HalfDay =>
                Val(DeadlineOf(deadline_time)) - Val(SchedOf(sched_time)) < -HalfDay )
    => C5_Outcome

\* C5 witness: two rows arriving 08:45 analysed for 08:30 with deadline
\* 09:00, every row relevant and none missed.
C5_Witness ==
    /\ C5_Case
    /\ RowCount = 2
    /\ sched_time = "08:30"
    /\ deadline_time = Some("09:00")
    /\ C5_Outcome

\* C6: when the text has a Date column and no Date cell parses, the ingest
\* returns (None, message) and no frame.
C6_NoSurvivorIsError ==
    ( /\ Ingested
      /\ "Date" \in TheCsv.cols
      /\ \A i \in 1..RowCount : ~DateParses(i) )
    => /\ IsAbsent(df)
       /\ IsAbsent(meta)
       /\ message # ""

\* C6 witness: a text with two rows, neither Date parsing, and no
\* descriptive column was refused.
C6_Witness ==
    /\ Ingested
    /\ TheCsv.cols = RequiredCols
    /\ RowCount = 2
    /\ \A i \in 1..RowCount : ~DateParses(i)
    /\ IsAbsent(df)
    /\ message # ""

\* C7: after a successful ingest the frame holds exactly the rows whose
\* Date parsed, once each and in the text's order, the metadata count is the number of
\* rows minus those whose Date failed, and a row whose Departure or Arrival
\* fails to parse is there with that timestamp absent.
C7_SurvivorsAreDateParsed ==
    IngestOk =>
        LET rows == Val(df).rows
            bad == {i \in 1..RowCount : ~DateParses(i)}
        IN  /\ LabelsOf(rows) = {i \in 1..RowCount : DateParses(i)}
            /\ \A k, l \in 1..Len(rows) : k < l => rows[k].label < rows[l].label
            /\ Val(meta).count = RowCount - Cardinality(bad)
            /\ Val(meta).count = Len(rows)
            /\ \A k \in 1..Len(rows) :
                  /\ IsAbsent(rows[k].actual_out) <=> IsAbsent(DepartureOf(rows[k].label))
                  /\ IsAbsent(rows[k].actual_in) <=> IsAbsent(ArrivalOf(rows[k].label))

\* C7 witness: a successful ingest that dropped a row for its Date and
\* kept one whose Arrival did not parse.
C7_Witness ==
    /\ IngestOk
    /\ \E i \in 1..RowCount : ~DateParses(i)
    /\ \E k \in 1..Len(Val(df).rows) : IsAbsent(Val(df).rows[k].actual_in)

\* C8: in a successful ingest, a row whose departure and arrival parsed has
\* its arrival on the row's date plus one day iff the arrival's time-of-day
\* is strictly earlier than the departure's, and on the row's date
\* otherwise; an arrival without a departure stays on the row's date; the
\* arrival is never before the departure.
C8_OvernightCorrection ==
    IngestOk =>
        \A k \in 1..Len(Val(df).rows) :
            LET r == Val(df).rows[k]
                dep == DepartureOf(r.label)
                arr == ArrivalOf(r.label)
                date == 20413 * MinutesPerDay
            IN  /\ (~IsAbsent(dep) /\ ~IsAbsent(arr)) =>
                      /\ Val(r.actual_out) = date + Val(dep)
                      /\ Val(r.actual_in) =
                            IF Val(arr) < Val(dep)
                            THEN date + MinutesPerDay + Val(arr)
                            ELSE date + Val(arr)
                      /\ Val(r.actual_in) >= Val(r.actual_out)
                /\ (IsAbsent(dep) /\ ~IsAbsent(arr)) =>
                      Val(r.actual_in) = date + Val(arr)
                /\ IsAbsent(arr) => IsAbsent(r.actual_in)

\* C8 witness: one ingest that moved an earlier-than-departure arrival to
\* the next day and left an arrival equal to its departure where it was.
C8_Witness ==
    /\ IngestOk
    /\ \E k \in 1..Len(Val(df).rows) :
          /\ mask_valid(Val(df).rows[k])
          /\ Val(ArrivalOf(Val(df).rows[k].label)) < Val(DepartureOf(Val(df).rows[k].label))
          /\ Val(Val(df).rows[k].actual_in) >= 20414 * MinutesPerDay
    /\ \E k \in 1..Len(Val(df).rows) :
          /\ mask_valid(Val(df).rows[k])
          /\ ArrivalOf(Val(df).rows[k].label) = DepartureOf(Val(df).rows[k].label)
          /\ Val(Val(df).rows[k].actual_in) < 20414 * MinutesPerDay

\* C9: no exception leaves process_csv_data or analyze_tail_risk: the
\* ingest returns a frame with its metadata or None with a message, the
\* analysis a report or an error message.
C9_NoFaultEscapes ==
    /\ raised = NoExc
    /\ Ingested =>
          \/ ~IsAbsent(df) /\ ~IsAbsent(meta) /\ message = ""
          \/ IsAbsent(df) /\ IsAbsent(meta) /\ message # ""
    /\ Analyzed =>
          \/ ~IsAbsent(result.report) /\ result.error = ""
          \/ IsAbsent(result.report) /\ result.error # ""

\* C9 witness: a text without a Date column was refused with a message,
\* and the analysis of what the ingest returned, with a malformed scheduled
\* time, returned an error.
C9_Witness ==
    /\ Analyzed
    /\ "Date" \notin TheCsv.cols
    /\ message # ""
    /\ sched_time = "8:30PM"
    /\ result.error # ""
    /\ raised = NoExc

\* C10: whatever date the analysis reads as today, the same frame,
\* scheduled time and deadline give the same buffer, the same locals and
\* the same report or error.
C10_IndependentOfToday ==
    Analyzed =>
        \A now \in Todays :
            LET r == analyze_tail_risk(process_csv_data(TheCsv).df,
                                       sched_time, deadline_time, now)
            IN  /\ r.report = result.report
                /\ r.error = result.error
                /\ r.d = locals.d
                /\ r.m = locals.m

\* C10 witness: a report with a deadline, made on the later of the dates.
C10_Witness ==
    /\ DeadlineOk
    /\ today = Some(20761 * MinutesPerDay)
    /\ TheReport.relevant_flights >= 1

\* The frame the ingest of the text returned, before any analysis.
CanonicalFrame == process_csv_data(TheCsv).df

\* C11 (as claimed): the analysis leaves the caller's frame as the ingest
\* returned it, the same rows, columns and values, and a second analysis of
\* that frame, with any times, gives what it gives on the original.
C11_CallerFrameUnchanged ==
    (Analyzed /\ ~IsAbsent(df)) =>
        /\ Val(df).cols = Val(CanonicalFrame).cols
        /\ Val(df).rows = Val(CanonicalFrame).rows
        /\ \A a \in AnalysisArgs, now \in Todays :
              LET again == analyze_tail_risk(df, a.sched_time, a.deadline_time, now)
                  fresh == analyze_tail_risk(CanonicalFrame, a.sched_time,
                                             a.deadline_time, now)
              IN  /\ again.report = fresh.report
                  /\ again.error = fresh.error

\* C12 (as claimed): every record of a successful ingest is cancelled or
\* has an actual arrival instant.
C12_CancelledOrArrived ==
    IngestOk =>
        \A k \in 1..Len(Val(df).rows) :
            Val(df).rows[k].is_cancelled \/ ~IsAbsent(Val(df).rows[k].actual_in)

\* C12 (amended): in a successful ingest a record is cancelled iff its
\* Duration cell says so, and its arrival instant is absent iff its Arrival
\* cell does not parse, whatever the Duration: the records that are not
\* cancelled and have no arrival instant are exactly the surviving rows
\* whose Arrival does not parse and whose Duration does not say Cancelled.
C12_AbsentArrivalIffUnparsed ==
    IngestOk =>
        \A k \in 1..Len(Val(df).rows) :
            LET r == Val(df).rows[k]
            IN  /\ r.is_cancelled <=> r.label \in CancelledLabels
                /\ IsAbsent(r.actual_in) <=> IsAbsent(ArrivalOf(r.label))
                /\ (~r.is_cancelled /\ IsAbsent(r.actual_in))
                      <=> (IsAbsent(ArrivalOf(r.label)) /\ r.label \notin CancelledLabels)

\* C12 witness: a successful ingest of a text with a Duration column kept a
\* row that is not cancelled and has no arrival instant, beside a cancelled
\* one.
C12_Witness ==
    /\ IngestOk
    /\ "Duration" \in TheCsv.cols
    /\ \E k \in 1..Len(Val(df).rows) :
          ~Val(df).rows[k].is_cancelled /\ IsAbsent(Val(df).rows[k].actual_in)
    /\ \E k \in 1..Len(Val(df).rows) : Val(df).rows[k].is_cancelled

\* The case C13 is about: a successful ingest, a well-formed scheduled time
\* and deadline (if any), and every surviving row arriving more than 180
\* minutes from the scheduled time around the clock.
C13_Case ==
    /\ Analyzed
    /\ IngestOk
    /\ ~IsAbsent(SchedOf(sched_time))
    /\ IsAbsent(deadline_time) \/ ~IsAbsent(DeadlineOf(deadline_time))
    /\ \A i \in 1..RowCount :
          DateParses(i) =>
              /\ ~IsAbsent(ArrivalOf(i))
              /\ ClockDistance(Val(ArrivalOf(i)), Val(SchedOf(sched_time)))
                    > RelevanceWindow

C13_Outcome ==
    /\ ReportOk
    /\ result.error = ""
    /\ TheReport.relevant_flights = 0
    /\ TheReport.cancellation_rate = 0
    /\ TheReport.average_delay_minutes = [sign |-> "+", digits |-> 0]
    /\ TheReport.severe_delays_count = 0
    /\ ~IsAbsent(deadline_time) =>
          /\ TheReport.deadline_miss_probability = Some(0)
          /\ ~TheReport.is_high_risk

\* C13 (as claimed): when no record is relevant the analysis returns a
\* report, not an error, with cancellation rate, average delay and severe
\* count 0 and, with a deadline, miss probability 0 and no high risk.
C13_NoRelevantStillReports == C13_Case => C13_Outcome

\* The buffer the claim describes for a deadline and a scheduled
\* time-of-day.
ClaimedBuffer(deadline_mins, sched_arr) ==
    LET raw == deadline_mins - sched_arr
    IN  IF raw < -HalfDay THEN raw + MinutesPerDay ELSE raw

\* C14: for every pair of minutes of the day the buffer is the deadline's
\* time-of-day minus the scheduled one, plus 1440 exactly when that
\* difference is below -720 and unchanged otherwise, large positive
\* differences included; it lies in [-720, 1439], and a deadline up to 12
\* hours before the scheduled time gives a negative buffer.
C14_BufferAsymmetricWrap ==
    /\ IsAbsent(probe.buffer_mins) =>
          \A d \in 0..(MinutesPerDay - 1), now \in Todays :
              LET u == probe.sched_arr
                  b == BufferMinutes(now, d, u)
              IN  /\ b = ClaimedBuffer(d, u)
                  /\ b \in (-HalfDay)..(MinutesPerDay - 1)
                  /\ (d < u /\ u - d <= HalfDay) => b < 0
                  /\ d - u > HalfDay => b = d - u
    /\ ~IsAbsent(probe.buffer_mins) =>
          LET raw == Val(probe.deadline_mins) - probe.sched_arr
              b == Val(probe.buffer_mins)
          IN  /\ b = ClaimedBuffer(Val(probe.deadline_mins), probe.sched_arr)
              /\ (b = raw + MinutesPerDay) <=> raw < -HalfDay
              /\ (b = raw) <=> raw >= -HalfDay
              /\ b \in (-HalfDay)..(MinutesPerDay - 1)

\* C14 witness: a deadline 721 minutes before the scheduled time was read
\* on the next day, buffer 719, while midnight against a noon schedule, 12
\* hours before it, gives -720.
C14_Witness ==
    /\ ~IsAbsent(probe.buffer_mins)
    /\ Val(probe.deadline_mins) - probe.sched_arr = -HalfDay - 1
    /\ Val(probe.buffer_mins) = HalfDay - 1
    /\ BufferMinutes(Val(today), 0, HalfDay) = -HalfDay

\* The categories and delays of a categorized valid set.
Categorized == ~IsAbsent(probe.categories)
CategoryOf(i) == Val(probe.categories)[i]
DelayOf(i) == Val(probe.valid_df[i].delay_minutes)
MissedDeadline(i) == probe.has_deadline /\ DelayOf(i) > Val(probe.buffer_mins)

\* C15: every record of the valid set gets exactly one category, by
\* priority: Missed Deadline iff there is a deadline and its delay exceeds
\* the buffer; otherwise Significant above 45, Nuisance above 15 and up to
\* 45, On Time up to 15; a delay equal to the buffer is not a miss; with a
\* deadline, the Missed Deadline records plus the relevant cancelled
\* records number miss_count.
C15_CategoryPriorityStrict ==
    Categorized =>
        /\ Len(Val(probe.categories)) = Len(probe.valid_df)
        /\ \A i \in 1..Len(probe.valid_df) :
              /\ CategoryOf(i) = "Missed Deadline" <=> MissedDeadline(i)
              /\ CategoryOf(i) = "Significant (>45m)"
                    <=> (~MissedDeadline(i) /\ DelayOf(i) > 45)
              /\ CategoryOf(i) = "Nuisance (15-45m)"
                    <=> (~MissedDeadline(i) /\ DelayOf(i) > 15 /\ DelayOf(i) <= 45)
              /\ CategoryOf(i) = "On Time / Early (<15m)"
                    <=> (~MissedDeadline(i) /\ DelayOf(i) <= 15)
              /\ (probe.has_deadline /\ DelayOf(i) = Val(probe.buffer_mins))
                    => CategoryOf(i) # "Missed Deadline"
        /\ probe.has_deadline =>
              Cardinality({i \in 1..Len(probe.valid_df) : CategoryOf(i) = "Missed Deadline"})
                  + probe.cancel_count = Val(probe.miss_count)

\* C15 witness: with a buffer of 45 and one relevant cancelled record, a
\* delay of 45 is Nuisance, one of 60 is Missed Deadline, and miss_count
\* is 2.
C15_Witness ==
    /\ Categorized
    /\ probe.buffer_mins = Some(45)
    /\ probe.cancel_count = 1
    /\ Len(probe.valid_df) = 2
    /\ DelayOf(1) = 45 /\ CategoryOf(1) = "Nuisance (15-45m)"
    /\ DelayOf(2) = 60 /\ CategoryOf(2) = "Missed Deadline"
    /\ probe.miss_count = Some(2)

\* The labels of the analysed rows whose Arrival cell does not parse.
UnparsedArrivalLabels ==
    {TheMetrics.rows[k].label : k \in {j \in 1..Len(TheMetrics.rows) :
                                          IsAbsent(ArrivalOf(TheMetrics.rows[j].label))}}

\* C16: the filter accepts a missing instant for every scheduled minute of
\* the day, and in every report each analysed row whose Arrival cell does
\* not parse is among the relevant rows, counted in relevant_flights, and
\* every hidden row has an Arrival that parsed.
C16_UnparsedArrivalIsRelevant ==
    /\ \A u \in 0..(MinutesPerDay - 1) : is_relevant_time(Absent, u)
    /\ ReportOk =>
          /\ \A k \in 1..Len(TheMetrics.rows) :
                IsAbsent(ArrivalOf(TheMetrics.rows[k].label)) =>
                    /\ IsAbsent(TheMetrics.rows[k].sched_in_local)
                    /\ TheMetrics.rows[k].is_relevant
          /\ UnparsedArrivalLabels \subseteq LabelsOf(TheMetrics.relevant_df)
          /\ TheReport.relevant_flights >= Cardinality(UnparsedArrivalLabels)
          /\ TheReport.hidden_flights
                <= TheReport.total_flights - Cardinality(UnparsedArrivalLabels)
          /\ TheReport.hidden_flights
                = Cardinality({k \in 1..Len(TheMetrics.rows) :
                                  /\ ~IsAbsent(ArrivalOf(TheMetrics.rows[k].label))
                                  /\ ~TheMetrics.rows[k].is_relevant})

\* C16 witness: a report over a row whose Arrival cell is the text
\* Cancelled, counted relevant, beside a row the filter hid.
C16_Witness ==
    /\ ReportOk
    /\ \E i \in 1..RowCount :
          /\ TheCsv.rows[i].Arrival = "Cancelled"
          /\ i \in LabelsOf(TheMetrics.relevant_df)
    /\ TheReport.relevant_flights = 1
    /\ TheReport.hidden_flights = 1

\* The flight object a fetched record was made from, and the reference
\* instant the claim gives a record without arrival data: scheduled_out on
\* the destination's wall clock.
Fetched == pc \in {"fetched", "analyzed"} /\ ~IsAbsent(meta)
FlightOf(r) == probe.response.flights[r.label]
ClaimedReference(f) == Val(f.scheduled_out) + UtcOffset(f.dest_tz)

\* C17 (as claimed): a record whose flight lacks arrival data has
\* scheduled_out, in naive local time, as the instant the relevance filter
\* reads, and no delay; the filter's verdict on it is the one that instant
\* gives, hidden when more than 180 minutes from the user's time around
\* the clock.
C17_FallbackReferenceFiltered ==
    /\ Fetched =>
          \A k \in 1..Len(Val(df).rows) :
              LET r == Val(df).rows[k]
              IN  ~HasArrivalData(FlightOf(r)) =>
                      /\ "sched_in_local" \in r.keys
                      /\ r.sched_in_local = Some(ClaimedReference(FlightOf(r)))
                      /\ IsAbsent(r.delay_minutes)
    /\ (Analyzed /\ Fetched) =>
          /\ raised = NoExc
          /\ ~IsAbsent(locals.m)
          /\ \A k \in 1..Len(TheMetrics.rows) :
                LET r == TheMetrics.rows[k]
                IN  ~HasArrivalData(FlightOf(r)) =>
                        (r.is_relevant <=>
                            ClockDistance(TimeOfDay(ClaimedReference(FlightOf(r))),
                                          Val(probe.sched_arr)) <= RelevanceWindow)

\* The labels of the relevant rows that are cancelled.
RelevantCancelled ==
    {TheMetrics.relevant_df[k].label :
        k \in {j \in 1..Len(TheMetrics.relevant_df) : TheMetrics.relevant_df[j].is_cancelled}}

\* C18: in every report relevant_flights + hidden_flights = total_flights;
\* the relevant cancelled rows and the valid set are disjoint sets of
\* relevant rows, which cancel_count and the delay list count; with a
\* deadline miss_count is at most relevant_flights; the cancellation rate
\* and the miss probability lie between 0% and 100%.
C18_CountingInvariant ==
    ReportOk =>
        /\ TheReport.relevant_flights + TheReport.hidden_flights = TheReport.total_flights
        /\ TheReport.relevant_flights >= 0 /\ TheReport.hidden_flights >= 0
        /\ TheReport.relevant_flights = Cardinality(LabelsOf(TheMetrics.relevant_df))
        /\ LabelsOf(TheMetrics.relevant_df) \subseteq LabelsOf(TheMetrics.rows)
        /\ LabelsOf(TheMetrics.valid_df) \subseteq LabelsOf(TheMetrics.relevant_df)
        /\ RelevantCancelled \subseteq LabelsOf(TheMetrics.relevant_df)
        /\ RelevantCancelled \cap LabelsOf(TheMetrics.valid_df) = {}
        /\ TheMetrics.cancel_count = Cardinality(RelevantCancelled)
        /\ Len(TheReport.delay_distribution) = Cardinality(LabelsOf(TheMetrics.valid_df))
        /\ TheMetrics.cancel_count + Len(TheMetrics.valid_df) <= TheReport.relevant_flights
        /\ TheReport.severe_delays_count <= Len(TheMetrics.valid_df)
        /\ TheReport.cancellation_rate \in 0..1000
        /\ DeadlineOk =>
              /\ Val(TheDeadline.miss_count) >= TheMetrics.cancel_count
              /\ Val(TheDeadline.miss_count) <= TheReport.relevant_flights
              /\ Val(TheReport.deadline_miss_probability) \in 0..1000

\* C18 witness: a report with a deadline over a relevant cancelled row and
\* a valid row that misses it: miss_count 2 of 2 relevant, 100.0%.
C18_Witness ==
    /\ DeadlineOk
    /\ Cardinality(RelevantCancelled) = 1
    /\ Len(TheMetrics.valid_df) = 1
    /\ TheDeadline.miss_count = Some(2)
    /\ TheReport.relevant_flights = 2
    /\ TheReport.deadline_miss_probability = Some(1000)

====
